---- MODULE Spec2Model ----
(***************************************************************************)
(* Model of bridge_app_equalized.py: the BridgeApp window with its four    *)
(* HandFrame panels (N, E, S, W), the centre table tiles, and the helpers  *)
(* normalize_cards / hcp_from_cards.                                       *)
(*                                                                         *)
(* A Python str is modelled as a sequence of one-character strings, so     *)
(* that the character-level work of normalize_cards (strip, upper,         *)
(* replace, split, filter, sort) is computed and not assumed.              *)
(***************************************************************************)
EXTENDS Naturals, Integers, Sequences, FiniteSets, Bags, TLC

VARIABLES
    frames,        \* BridgeApp.frames: player -> HandFrame state
    table_colors,  \* BridgeApp.table_colors: letter -> fill colour
    summary,       \* BridgeApp.summary_var, as the numbers it is formatted from
    focus,         \* the entry widget holding the keyboard focus
    popup,         \* outcome of the last Validate All / Dump State command
    last_op,       \* the handler that ran last, with its inputs
    steps,         \* number of user gestures so far
    norm_in,       \* argument handed to normalize_cards (helper runs)
    norm_out       \* value normalize_cards returned for norm_in

vars == <<frames, table_colors, summary, focus, popup, last_op, steps,
          norm_in, norm_out>>

(***************************************************************************)
(* Bounds of the exploration.                                              *)
(***************************************************************************)
MaxSteps == 3      \* user gestures per behaviour of Spec
MaxTextLen == 3    \* longest argument tried on normalize_cards in SpecNorm
MaxPanelSteps == 6 \* user gestures per behaviour of SpecPanel
MaxSummarySteps == 6 \* user gestures per behaviour of SpecSummary
MaxTableSteps == 7 \* user gestures per behaviour of SpecTable

(***************************************************************************)
(* Module constants of the program.                                        *)
(***************************************************************************)
RANKS_ORDER == <<"A", "K", "Q", "J", "T", "9", "8", "7", "6", "5", "4", "3", "2", "X">>

RANK_VALUES(ch) ==
    CASE ch = "A" -> 4
      [] ch = "K" -> 3
      [] ch = "Q" -> 2
      [] ch = "J" -> 1
      [] OTHER -> 0

SUITS == <<"S", "H", "D", "C">>

PLAYERS == <<"N", "E", "S", "W">>

SuitSet == {SUITS[i] : i \in DOMAIN SUITS}
PlayerSet == {PLAYERS[i] : i \in DOMAIN PLAYERS}
RankSet == {RANKS_ORDER[i] : i \in DOMAIN RANKS_ORDER}

GREEN == "#6fff6f"
RED == "#ff6f6f"

(***************************************************************************)
(* Python values and str methods.                                          *)
(***************************************************************************)
\* Python's None, kept apart from every str (a str has one-character items).
None == <<"None">>

EmptyStr == <<>>

\* F(value), with value computed once: a local name of the Python code that
\* is assigned once and read several times
Let(value, F(_)) == CHOOSE r \in {F(v) : v \in {value}} : TRUE

LOWER == <<"a", "b", "c", "d", "e", "f", "g", "h", "i", "j", "k", "l", "m",
           "n", "o", "p", "q", "r", "s", "t", "u", "v", "w", "x", "y", "z">>
UPPER == <<"A", "B", "C", "D", "E", "F", "G", "H", "I", "J", "K", "L", "M",
           "N", "O", "P", "Q", "R", "S", "T", "U", "V", "W", "X", "Y", "Z">>

\* U+00B2 SUPERSCRIPT TWO: str.isdigit() accepts it, int() does not.
SUPERSCRIPT_TWO == "^2"

ASCII_DIGITS == <<"0", "1", "2", "3", "4", "5", "6", "7", "8", "9">>
AsciiDigitSet == {ASCII_DIGITS[i] : i \in DOMAIN ASCII_DIGITS}

IsSpace(ch) == ch = " "

UpperCh(ch) ==
    IF \E i \in DOMAIN LOWER : LOWER[i] = ch
    THEN UPPER[CHOOSE i \in DOMAIN LOWER : LOWER[i] = ch]
    ELSE ch

\* str.upper()
Upper(s) == [i \in DOMAIN s |-> UpperCh(s[i])]

RECURSIVE LStrip(_)
LStrip(s) == IF s # <<>> /\ IsSpace(Head(s)) THEN LStrip(Tail(s)) ELSE s

RECURSIVE RStrip(_)
RStrip(s) ==
    IF s # <<>> /\ IsSpace(s[Len(s)]) THEN RStrip(SubSeq(s, 1, Len(s) - 1)) ELSE s

\* str.strip()
Strip(s) == RStrip(LStrip(s))

\* str.replace(old, new) for a one-character old
ReplaceCh(s, old, new) == [i \in DOMAIN s |-> IF s[i] = old THEN new ELSE s[i]]

\* str.replace('10', 'T'): leftmost non-overlapping occurrences
RECURSIVE Replace10(_)
Replace10(s) ==
    IF s = <<>> THEN <<>>
    ELSE IF Len(s) >= 2 /\ s[1] = "1" /\ s[2] = "0"
         THEN <<"T">> \o Replace10(SubSeq(s, 3, Len(s)))
         ELSE <<s[1]>> \o Replace10(Tail(s))

\* str.split(): the maximal runs of non-whitespace characters
RECURSIVE Split(_)
Split(s) ==
    LET t == LStrip(s)
        n == IF \E i \in DOMAIN t : IsSpace(t[i])
             THEN (CHOOSE i \in DOMAIN t :
                      IsSpace(t[i]) /\ \A j \in 1..(i - 1) : ~IsSpace(t[j])) - 1
             ELSE Len(t)
    IN  IF t = <<>> THEN <<>>
        ELSE <<SubSeq(t, 1, n)>> \o Split(SubSeq(t, n + 1, Len(t)))

\* [ch for p in parts for ch in p]
RECURSIVE Flatten(_)
Flatten(parts) ==
    IF parts = <<>> THEN <<>> ELSE Head(parts) \o Flatten(Tail(parts))

\* RANKS_ORDER.index(t)
RankIndex(t) == CHOOSE i \in DOMAIN RANKS_ORDER : RANKS_ORDER[i] = t

\* insertion of t after every item whose key is not larger (stable)
RECURSIVE InsertByRank(_, _)
InsertByRank(sorted, t) ==
    IF sorted = <<>> THEN <<t>>
    ELSE IF RankIndex(Head(sorted)) <= RankIndex(t)
         THEN <<Head(sorted)>> \o InsertByRank(Tail(sorted), t)
         ELSE <<t>> \o sorted

\* sorted(tokens, key=lambda t: RANKS_ORDER.index(t))
RECURSIVE SortedByRank(_)
SortedByRank(tokens) ==
    IF tokens = <<>> THEN <<>>
    ELSE InsertByRank(SortedByRank(SubSeq(tokens, 1, Len(tokens) - 1)),
                      tokens[Len(tokens)])

\* str(n) for a natural number
RECURSIVE Str(_)
Str(n) ==
    IF n < 10 THEN <<ASCII_DIGITS[n + 1]>>
    ELSE Str(n \div 10) \o <<ASCII_DIGITS[(n % 10) + 1]>>

\* collections.Counter(s)[ch]
RECURSIVE Count(_, _)
Count(s, ch) ==
    IF s = <<>> THEN 0
    ELSE (IF Head(s) = ch THEN 1 ELSE 0) + Count(Tail(s), ch)

(***************************************************************************)
(* normalize_cards and hcp_from_cards.                                     *)
(***************************************************************************)
\* text.strip().upper().replace(',', ' ').replace('-', ' ').replace('.', ' ')
Separated(text) ==
    ReplaceCh(ReplaceCh(ReplaceCh(Upper(Strip(text)), ",", " "), "-", " "), ".", " ")

\* the tokens of normalize_cards before they are filtered and sorted
Tokens(text) ==
    Let(Split(Replace10(Separated(text))), LAMBDA parts :
    Let(IF Len(parts) = 1 THEN parts[1] ELSE Flatten(parts), LAMBDA tokens :
        [i \in DOMAIN tokens |-> IF tokens[i] = "0" THEN "T" ELSE tokens[i]]))

normalize_cards_unsorted(text) ==
    IF text = None THEN EmptyStr
    ELSE SelectSeq(Tokens(text), LAMBDA t : t \in RankSet)

normalize_cards(text) ==
    IF text = None THEN EmptyStr
    ELSE Let(SelectSeq(Tokens(text), LAMBDA t : t \in RankSet), LAMBDA tokens :
             SortedByRank(tokens))

RECURSIVE hcp_from_cards(_)
hcp_from_cards(cards) ==
    IF cards = <<>> THEN 0
    ELSE RANK_VALUES(Head(cards)) + hcp_from_cards(Tail(cards))

(***************************************************************************)
(* Numeric parsing as the handlers do it.                                  *)
(***************************************************************************)
\* str.isdigit(): non-empty and every character a digit character
isdigit(s) ==
    /\ s # <<>>
    /\ \A i \in DOMAIN s : s[i] \in AsciiDigitSet \cup {SUPERSCRIPT_TWO}

AllAsciiDigits(s) == s # <<>> /\ \A i \in DOMAIN s : s[i] \in AsciiDigitSet

DigitValue(ch) == (CHOOSE i \in DOMAIN ASCII_DIGITS : ASCII_DIGITS[i] = ch) - 1

\* value of a run of ASCII digits
RECURSIVE DecimalValue(_)
DecimalValue(s) ==
    IF s = <<>> THEN 0
    ELSE 10 * DecimalValue(SubSeq(s, 1, Len(s) - 1)) + DigitValue(s[Len(s)])

\* int(s) succeeds: surrounding whitespace, an optional sign, ASCII digits
IntParses(s) ==
    LET v == Strip(s)
    IN  \/ AllAsciiDigits(v)
        \/ v # <<>> /\ v[1] \in {"+", "-"} /\ AllAsciiDigits(Tail(v))

\* int(s) where it succeeds
int(s) ==
    LET v == Strip(s)
    IN  IF v[1] = "-" THEN 0 - DecimalValue(Tail(v))
        ELSE IF v[1] = "+" THEN DecimalValue(Tail(v))
        ELSE DecimalValue(v)

Max(a, b) == IF a >= b THEN a ELSE b

(***************************************************************************)
(* HandFrame.                                                              *)
(***************************************************************************)
\* attributes HandFrame.__init__ binds on self
HandFrameAttrs ==
    {"on_change", "last_cards", "played_counts", "card_strips", "cards_entries",
     "points_min", "points_max", "hcp_var", "cards_total_var",
     "suit_count_vars", "suit_card_vars"}

\* one tile of a suit strip: its text and its _played flag
Tile(rank, is_played) == [text |-> rank, played |-> is_played]

\* rebuild_card_strip's loop: tiles for cards[i..], used_played so far
RECURSIVE StripTiles(_, _, _)
StripTiles(cards, played_counts, used_played) ==
    IF cards = <<>> THEN <<>>
    ELSE LET rank == Head(cards)
             is_played == /\ rank # "X"
                          /\ CopiesIn(rank, used_played) < CopiesIn(rank, played_counts)
             used == IF is_played THEN used_played (+) SetToBag({rank}) ELSE used_played
         IN  <<Tile(rank, is_played)>> \o StripTiles(Tail(cards), played_counts, used)

rebuild_card_strip(hf, suit_code) ==
    [hf EXCEPT !.card_strips[suit_code] =
        StripTiles(hf.suit_card_vars[suit_code], hf.played_counts[suit_code], EmptyBag)]

\* sum(len(var.get())) over the first n suits
RECURSIVE CardsIn(_, _)
CardsIn(hf, n) ==
    IF n = 0 THEN 0 ELSE CardsIn(hf, n - 1) + Len(hf.suit_card_vars[SUITS[n]])

\* sum(hcp_from_cards(var.get())) over the first n suits
RECURSIVE HcpIn(_, _)
HcpIn(hf, n) ==
    IF n = 0 THEN 0 ELSE HcpIn(hf, n - 1) + hcp_from_cards(hf.suit_card_vars[SUITS[n]])

update_stats_skips_clubs(hf) ==
    Let(hf, LAMBDA h :
        [h EXCEPT !.hcp_var = Str(HcpIn(h, Len(SUITS))),
                  !.cards_total_var = Str(CardsIn(h, Len(SUITS) - 1))])

\* update_stats without its on_change() call, which the actions make
update_stats(hf) ==
    Let(hf, LAMBDA h :
        [h EXCEPT !.hcp_var = Str(HcpIn(h, Len(SUITS))),
                  !.cards_total_var = Str(CardsIn(h, Len(SUITS)))])

\* {r: new_counter[r] - old_counter.get(r, 0) ...} restricted to c > 0
added(old_norm, new_norm) ==
    {r \in RankSet \ {"X"} : Count(new_norm, r) - Count(old_norm, r) > 0}

\* sum(added.values())
RECURSIVE SumAdded(_, _, _)
SumAdded(ranks, old_norm, new_norm) ==
    IF ranks = {} THEN 0
    ELSE Let(CHOOSE x \in ranks : TRUE, LAMBDA r :
             (Count(new_norm, r) - Count(old_norm, r))
             + SumAdded(ranks \ {r}, old_norm, new_norm))

auto_mark_any_x(played_counts, old_norm, new_norm) ==
    Let(Count(old_norm, "X") - Count(new_norm, "X"), LAMBDA delta_x :
    Let(added(old_norm, new_norm), LAMBDA ranks :
        IF old_norm # EmptyStr /\ delta_x >= 1 /\ SumAdded(ranks, old_norm, new_norm) = 1
        THEN played_counts (+) SetToBag({CHOOSE r \in ranks : TRUE})
        ELSE played_counts))

\* "auto-mark a single new rank that replaced one 'X'"
auto_mark(played_counts, old_norm, new_norm) ==
    Let(Count(old_norm, "X") - Count(new_norm, "X"), LAMBDA delta_x :
    Let(added(old_norm, new_norm), LAMBDA ranks :
        IF old_norm # EmptyStr /\ delta_x = 1 /\ SumAdded(ranks, old_norm, new_norm) = 1
        THEN played_counts (+) SetToBag({CHOOSE r \in ranks : TRUE})
        ELSE played_counts))

\* the body of on_cards_change up to the focus move
on_cards_change(hf, sc) ==
    Let(hf.last_cards[sc], LAMBDA old :
    Let(hf.suit_card_vars[sc], LAMBDA text :
    Let(normalize_cards(text), LAMBDA new_norm :
    Let(IF new_norm # Upper(text)
        THEN [hf EXCEPT !.suit_card_vars[sc] = new_norm]
        ELSE hf, LAMBDA hf1 :
    Let([hf1 EXCEPT !.suit_count_vars[sc] = Str(Len(new_norm))], LAMBDA hf2 :
    Let(update_stats(hf2), LAMBDA hf3 :
    Let(normalize_cards(old), LAMBDA old_norm :
    Let(auto_mark(hf3.played_counts[sc], old_norm, new_norm), LAMBDA marked :
    Let([hf3 EXCEPT !.played_counts[sc] = marked, !.last_cards[sc] = new_norm], LAMBDA hf4 :
        rebuild_card_strip(hf4, sc))))))))))

SuitIndex(sc) == CHOOSE i \in DOMAIN SUITS : SUITS[i] = sc

focus_next_suit_no_wrap(focused, current_suit_code) ==
    LET idx == SuitIndex(current_suit_code)
    IN  IF idx + 1 \in DOMAIN SUITS THEN SUITS[idx + 1] ELSE focused

\* the suit whose cards entry holds the focus after focus_next_suit; the
\* except clause leaves the focus where it was
focus_next_suit(focused, current_suit_code) ==
    IF current_suit_code \in SuitSet
    THEN LET idx == SuitIndex(current_suit_code)
         IN  SUITS[((idx - 1 + 1) % Len(SUITS)) + 1]
    ELSE focused

\* on_toggle of tile i of the suit's strip
on_toggle(hf, suit_code, i) ==
    LET l == hf.card_strips[suit_code][i]
        r == l.text
        pc == hf.played_counts[suit_code]
    IN  IF r = "X" THEN hf
        ELSE IF ~l.played
             THEN [hf EXCEPT !.card_strips[suit_code][i].played = TRUE,
                             !.played_counts[suit_code] = pc (+) SetToBag({r})]
             ELSE [hf EXCEPT !.card_strips[suit_code][i].played = FALSE,
                             !.played_counts[suit_code] =
                                 IF CopiesIn(r, pc) > 0 THEN pc (-) SetToBag({r}) ELSE pc]

\* one pass of sort_all's loop
sort_one(hf, sc) ==
    Let(normalize_cards(hf.suit_card_vars[sc]), LAMBDA norm :
    Let([hf EXCEPT !.suit_card_vars[sc] = norm,
                   !.suit_count_vars[sc] = Str(Len(norm)),
                   !.last_cards[sc] = norm], LAMBDA hf1 :
        rebuild_card_strip(hf1, sc)))

sort_all(hf) ==
    Let(sort_one(hf, "S"), LAMBDA h1 :
    Let(sort_one(h1, "H"), LAMBDA h2 :
    Let(sort_one(h2, "D"), LAMBDA h3 :
    Let(sort_one(h3, "C"), LAMBDA h4 :
        update_stats(h4)))))

\* one pass of clear_all's loop
clear_one(hf, sc) ==
    Let([hf EXCEPT !.suit_card_vars[sc] = EmptyStr,
                   !.suit_count_vars[sc] = EmptyStr,
                   !.last_cards[sc] = EmptyStr,
                   !.played_counts[sc] = EmptyBag], LAMBDA hf1 :
        rebuild_card_strip(hf1, sc))

clear_all(hf) ==
    Let([hf EXCEPT !.points_min = EmptyStr, !.points_max = EmptyStr], LAMBDA h0 :
    Let(clear_one(h0, "S"), LAMBDA h1 :
    Let(clear_one(h1, "H"), LAMBDA h2 :
    Let(clear_one(h2, "D"), LAMBDA h3 :
    Let(clear_one(h3, "C"), LAMBDA h4 :
        update_stats(h4))))))

\* get_state: AttributeError when self.player_label was never bound
get_state(hf) ==
    IF "player_label" \notin HandFrameAttrs
    THEN [raised |-> "AttributeError"]
    ELSE [raised |-> "no",
          points_range |-> <<hf.points_min, hf.points_max>>,
          hcp |-> hf.hcp_var,
          cards_total |-> hf.cards_total_var,
          suits |-> [sc \in SuitSet |->
                       [count |-> hf.suit_count_vars[sc],
                        cards |-> hf.suit_card_vars[sc],
                        played |-> hf.played_counts[sc]]]]

(***************************************************************************)
(* BridgeApp.                                                              *)
(***************************************************************************)
toggle_clicked_only(colors, letter) ==
    LET cur == colors[letter]
        new_color == IF cur = GREEN THEN RED ELSE GREEN
    IN  [colors EXCEPT ![letter] = new_color]

_toggle_table_letter(colors, letter) ==
    LET pair == IF letter \in {"W", "E"} THEN {"W", "E"} ELSE {"N", "S"}
        cur == colors[letter]
        new_color == IF cur = GREEN THEN RED ELSE GREEN
    IN  [L \in DOMAIN colors |-> IF L \in pair THEN new_color ELSE colors[L]]

\* _to_int of update_global_stats: blank or unparsable -> 0
_to_int(entry) ==
    LET v == Strip(entry)
    IN  IF v = EmptyStr THEN 0 ELSE IF IntParses(v) THEN int(v) ELSE 0

update_global_stats_min_for_max(fr) ==
    LET hcp(pl) == IF IntParses(fr[pl].hcp_var) THEN int(fr[pl].hcp_var) ELSE 0
        n(pl, sc) == Len(fr[pl].suit_card_vars[sc])
        suit_total(sc) == n("N", sc) + n("E", sc) + n("S", sc) + n("W", sc)
        lo(pl) == Max(hcp(pl), _to_int(fr[pl].points_min))
    IN  [total_cards |-> suit_total("S") + suit_total("H") + suit_total("D") + suit_total("C"),
         suit_totals |-> [sc \in SuitSet |-> suit_total(sc)],
         min_points_sum |-> lo("N") + lo("E") + lo("S") + lo("W"),
         max_points_sum |-> lo("N") + lo("E") + lo("S") + lo("W")]

\* the numbers update_global_stats formats into summary_var
update_global_stats(fr) ==
    LET hcp(pl) == IF IntParses(fr[pl].hcp_var) THEN int(fr[pl].hcp_var) ELSE 0
        n(pl, sc) == Len(fr[pl].suit_card_vars[sc])
        suit_total(sc) == n("N", sc) + n("E", sc) + n("S", sc) + n("W", sc)
        lo(pl) == Max(hcp(pl), _to_int(fr[pl].points_min))
        hi(pl) == Max(hcp(pl), _to_int(fr[pl].points_max))
    IN  [total_cards |-> suit_total("S") + suit_total("H") + suit_total("D") + suit_total("C"),
         suit_totals |-> [sc \in SuitSet |-> suit_total(sc)],
         min_points_sum |-> lo("N") + lo("E") + lo("S") + lo("W"),
         max_points_sum |-> hi("N") + hi("E") + hi("S") + hi("W")]

\* the lines validate_all appends for one player
PlayerMsgs(fr, pl) ==
    LET hf == fr[pl]
        cards(sc) == Strip(hf.suit_card_vars[sc])
        cnt_str(sc) == Strip(hf.suit_count_vars[sc])
        count_msg(sc) ==
            IF isdigit(cnt_str(sc)) /\ int(cnt_str(sc)) # Len(cards(sc))
            THEN <<[pl |-> pl, sc |-> sc, what |-> "count",
                    n |-> int(cnt_str(sc)), cards |-> cards(sc)]>>
            ELSE <<>>
        total == Len(cards("S")) + Len(cards("H")) + Len(cards("D")) + Len(cards("C"))
        total_msg ==
            IF total # 0 /\ total # 13
            THEN <<[pl |-> pl, sc |-> "-", what |-> "total", n |-> total, cards |-> EmptyStr]>>
            ELSE <<>>
    IN  count_msg("S") \o count_msg("H") \o count_msg("D") \o count_msg("C") \o total_msg

\* validate_all: the message box it ends in, or the exception that ends it
validate_all(fr) ==
    LET int_raises(pl, sc) ==
            LET cnt_str == Strip(fr[pl].suit_count_vars[sc])
            IN  isdigit(cnt_str) /\ ~AllAsciiDigits(cnt_str)
        msgs == PlayerMsgs(fr, "N") \o PlayerMsgs(fr, "E") \o PlayerMsgs(fr, "S")
                \o PlayerMsgs(fr, "W")
    IN  IF \E pl \in PlayerSet, sc \in SuitSet : int_raises(pl, sc)
        THEN [cmd |-> "validate_all", kind |-> "ValueError", msgs |-> <<>>, printed |-> <<>>]
        ELSE IF msgs # <<>>
             THEN [cmd |-> "validate_all", kind |-> "showwarning", msgs |-> msgs, printed |-> <<>>]
             ELSE [cmd |-> "validate_all", kind |-> "showinfo", msgs |-> <<>>, printed |-> <<>>]

\* dump_state: the dict comprehension fails with the first get_state that fails
dump_state(fr) ==
    IF \E pl \in PlayerSet : get_state(fr[pl]).raised # "no"
    THEN [cmd |-> "dump_state", kind |-> "AttributeError", msgs |-> <<>>, printed |-> <<>>]
    ELSE [cmd |-> "dump_state", kind |-> "showinfo", msgs |-> <<>>,
          printed |-> [pl \in PlayerSet |-> get_state(fr[pl])]]

(***************************************************************************)
(* Initial state: BridgeApp.__init__ has built the four panels.            *)
(***************************************************************************)
HandFrameInit ==
    [last_cards |-> [sc \in SuitSet |-> EmptyStr],
     played_counts |-> [sc \in SuitSet |-> EmptyBag],
     card_strips |-> [sc \in SuitSet |-> <<>>],
     suit_count_vars |-> [sc \in SuitSet |-> EmptyStr],
     suit_card_vars |-> [sc \in SuitSet |-> EmptyStr],
     hcp_var |-> <<"0">>,
     cards_total_var |-> <<"0">>,
     points_min |-> EmptyStr,
     points_max |-> EmptyStr]

NoFocus == <<"none", "-", "-">>
CardsEntry(pl, sc) == <<"cards", pl, sc>>
CountEntry(pl, sc) == <<"count", pl, sc>>
PointsEntry(which, pl) == <<which, pl, "-">>

Entries ==
    {CardsEntry(pl, sc) : pl \in PlayerSet, sc \in SuitSet}
    \cup {CountEntry(pl, sc) : pl \in PlayerSet, sc \in SuitSet}
    \cup {PointsEntry(w, pl) : w \in {"points_min", "points_max"}, pl \in PlayerSet}

NoPopup == [cmd |-> "none", kind |-> "none", msgs |-> <<>>, printed |-> <<>>]
NotCalled == <<"not called">>

\* op: the handler; pl, sc: its panel and suit; evt: the event's keysym;
\* text: var.get() on entry; old: last_cards[sc] on entry; dest: the entry
\* the user's gesture gave the focus to
Op(op, pl, sc, evt, text, old) ==
    [op |-> op, pl |-> pl, sc |-> sc, evt |-> evt, text |-> text, old |-> old,
     dest |-> NoFocus]

FormInit ==
    /\ frames = [pl \in PlayerSet |-> HandFrameInit]
    /\ table_colors = [L \in PlayerSet |-> GREEN]
    /\ summary = update_global_stats([pl \in PlayerSet |-> HandFrameInit])
    /\ focus = NoFocus
    /\ popup = NoPopup
    /\ last_op = Op("init", "-", "-", "-", EmptyStr, EmptyStr)
    /\ steps = 0

Init ==
    /\ FormInit
    /\ norm_in = None
    /\ norm_out = NotCalled

(***************************************************************************)
(* What the user types.                                                    *)
(***************************************************************************)
\* texts typed into a cards entry
CardTexts == {<<"A", "K">>, <<"q">>, <<" ", "X">>}

\* texts typed into a cards entry of the panel SpecPanel works on
PanelCardTexts ==
    {<<>>, <<"A", "X">>, <<"A", "K">>, <<"a", "k">>, <<"X", "X">>,
     <<"x", " ", "1", "0">>, <<"K", "X", "X">>, <<"A", "A">>}

\* characters of the arguments tried on normalize_cards
NormChars == {"A", "K", "T", "X", "2", "a", "x", "b", "1", "0", " ", ",", "-", "."}

NormTexts == UNION {[1..n -> NormChars] : n \in 0..MaxTextLen}

\* texts typed into a count entry
CountTexts == {<<"2">>, <<"-", "1">>, <<SUPERSCRIPT_TWO>>}

\* texts typed into a Pts entry
PointsTexts == {<<"5">>, <<"x">>}

(***************************************************************************)
(* Event handlers.  bound is the number of gestures a behaviour may hold.  *)
(***************************************************************************)
Gesture(bound) == steps < bound /\ steps' = steps + 1

\* where the focus is once on_cards_change has returned
focus_after_cards_change(evt, focused, pl, sc) ==
    IF evt \in {"Return", "Tab"}
    THEN CardsEntry(pl, focus_next_suit(focused[3], sc))
    ELSE focused

\* The user moves the focus into entry dest.  A cards entry that loses the
\* focus gets <FocusOut>, which runs on_cards_change.
FocusEntry(bound, dest) ==
    /\ Gesture(bound)
    /\ dest # focus
    /\ IF focus[1] = "cards"
       THEN LET pl == focus[2]
                sc == focus[3]
            IN  /\ frames' = [frames EXCEPT ![pl] = on_cards_change(@, sc)]
                /\ summary' = update_global_stats(frames')
                /\ last_op' = [Op("on_cards_change", pl, sc, "FocusOut",
                                  frames[pl].suit_card_vars[sc], frames[pl].last_cards[sc])
                                 EXCEPT !.dest = dest]
                /\ focus' = focus_after_cards_change("FocusOut", dest, pl, sc)
       ELSE /\ last_op' = [Op("focus", dest[2], dest[3], "-", EmptyStr, EmptyStr)
                            EXCEPT !.dest = dest]
            /\ focus' = dest
            /\ UNCHANGED <<frames, summary>>
    /\ UNCHANGED <<table_colors, popup, norm_in, norm_out>>

\* <Return> or <Tab> in the focused cards entry: on_cards_change, then
\* focus_next_suit, whose focus_set() sends <FocusOut> to the entry left,
\* which runs on_cards_change on it once more.
KeyReturnOrTab(bound, evt) ==
    /\ Gesture(bound)
    /\ focus[1] = "cards"
    /\ LET pl == focus[2]
           sc == focus[3]
           after == focus_after_cards_change(evt, focus, pl, sc)
       IN  /\ \E hf1 \in {on_cards_change(frames[pl], sc)} :
                 frames' = [frames EXCEPT ![pl] =
                               IF after # focus THEN on_cards_change(hf1, sc) ELSE hf1]
           /\ summary' = update_global_stats(frames')
           /\ last_op' = Op("on_cards_change", pl, sc, evt,
                            frames[pl].suit_card_vars[sc], frames[pl].last_cards[sc])
           /\ focus' = after
    /\ UNCHANGED <<table_colors, popup, norm_in, norm_out>>

\* The user edits the focused cards entry; no binding runs on a plain key.
TypeCards(bound, text) ==
    /\ Gesture(bound)
    /\ focus[1] = "cards"
    /\ text # frames[focus[2]].suit_card_vars[focus[3]]
    /\ frames' = [frames EXCEPT ![focus[2]].suit_card_vars[focus[3]] = text]
    /\ last_op' = Op("type", focus[2], focus[3], "-", text, EmptyStr)
    /\ UNCHANGED <<table_colors, summary, focus, popup, norm_in, norm_out>>

\* The user edits the focused count entry.  The write trace on_count_change
\* only recolours the cards entry.
TypeCount(bound, text) ==
    /\ Gesture(bound)
    /\ focus[1] = "count"
    /\ text # frames[focus[2]].suit_count_vars[focus[3]]
    /\ frames' = [frames EXCEPT ![focus[2]].suit_count_vars[focus[3]] = text]
    /\ last_op' = Op("type", focus[2], focus[3], "-", text, EmptyStr)
    /\ UNCHANGED <<table_colors, summary, focus, popup, norm_in, norm_out>>

\* The user edits the focused Pts entry (no binding, no trace).
TypePoints(bound, text) ==
    /\ Gesture(bound)
    /\ focus[1] \in {"points_min", "points_max"}
    /\ text # frames[focus[2]][focus[1]]
    /\ frames' = [frames EXCEPT ![focus[2]][focus[1]] = text]
    /\ last_op' = Op("type", focus[2], "-", "-", text, EmptyStr)
    /\ UNCHANGED <<table_colors, summary, focus, popup, norm_in, norm_out>>

\* <Button-1> on tile i of a suit strip
ClickCardTile(bound, pl, sc, i) ==
    /\ Gesture(bound)
    /\ i \in DOMAIN frames[pl].card_strips[sc]
    /\ frames' = [frames EXCEPT ![pl] = on_toggle(@, sc, i)]
    /\ last_op' = Op("on_toggle", pl, sc, "-", EmptyStr, EmptyStr)
    /\ UNCHANGED <<table_colors, summary, focus, popup, norm_in, norm_out>>

\* the panel's "Sort & Sync" button
SortAndSync(bound, pl) ==
    /\ Gesture(bound)
    /\ frames' = [frames EXCEPT ![pl] = sort_all(@)]
    /\ summary' = update_global_stats(frames')
    /\ last_op' = Op("sort_all", pl, "-", "-", EmptyStr, EmptyStr)
    /\ UNCHANGED <<table_colors, focus, popup, norm_in, norm_out>>

\* the panel's "Clear" button
Clear(bound, pl) ==
    /\ Gesture(bound)
    /\ frames' = [frames EXCEPT ![pl] = clear_all(@)]
    /\ summary' = update_global_stats(frames')
    /\ last_op' = Op("clear_all", pl, "-", "-", EmptyStr, EmptyStr)
    /\ UNCHANGED <<table_colors, focus, popup, norm_in, norm_out>>

\* "Sort & Sync All"
SortAllHands(bound) ==
    /\ Gesture(bound)
    /\ frames' = [pl \in PlayerSet |-> sort_all(frames[pl])]
    /\ summary' = update_global_stats(frames')
    /\ last_op' = Op("sort_all_hands", "-", "-", "-", EmptyStr, EmptyStr)
    /\ UNCHANGED <<table_colors, focus, popup, norm_in, norm_out>>

\* "Clear All"
ClearAllHands(bound) ==
    /\ Gesture(bound)
    /\ frames' = [pl \in PlayerSet |-> clear_all(frames[pl])]
    /\ summary' = update_global_stats(frames')
    /\ last_op' = Op("clear_all_hands", "-", "-", "-", EmptyStr, EmptyStr)
    /\ UNCHANGED <<table_colors, focus, popup, norm_in, norm_out>>

\* "Validate All"
ValidateAll(bound) ==
    /\ Gesture(bound)
    /\ popup' = validate_all(frames)
    /\ last_op' = Op("validate_all", "-", "-", "-", EmptyStr, EmptyStr)
    /\ UNCHANGED <<frames, table_colors, summary, focus, norm_in, norm_out>>

\* "Dump State to Console"
DumpState(bound) ==
    /\ Gesture(bound)
    /\ popup' = dump_state(frames)
    /\ last_op' = Op("dump_state", "-", "-", "-", EmptyStr, EmptyStr)
    /\ UNCHANGED <<frames, table_colors, summary, focus, norm_in, norm_out>>

\* <Button-1> on a tile of the centre table
ClickTableTile(bound, letter) ==
    /\ Gesture(bound)
    /\ table_colors' = _toggle_table_letter(table_colors, letter)
    /\ last_op' = Op("_toggle_table_letter", letter, "-", "-", EmptyStr, EmptyStr)
    /\ UNCHANGED <<frames, summary, focus, popup, norm_in, norm_out>>

\* Spec: short sessions over the whole window, every entry of the four
\* panels and every command.  (A strip has no tile to click before its
\* fourth gesture; SpecPanel clicks tiles.)
Next ==
    \/ \E dest \in Entries : FocusEntry(MaxSteps, dest)
    \/ \E evt \in {"Return", "Tab"} : KeyReturnOrTab(MaxSteps, evt)
    \/ \E text \in CardTexts : TypeCards(MaxSteps, text)
    \/ \E text \in CountTexts : TypeCount(MaxSteps, text)
    \/ \E text \in PointsTexts : TypePoints(MaxSteps, text)
    \/ \E pl \in PlayerSet : SortAndSync(MaxSteps, pl)
    \/ \E pl \in PlayerSet : Clear(MaxSteps, pl)
    \/ SortAllHands(MaxSteps)
    \/ ClearAllHands(MaxSteps)
    \/ ValidateAll(MaxSteps)
    \/ DumpState(MaxSteps)
    \/ \E letter \in PlayerSet : ClickTableTile(MaxSteps, letter)

Spec == Init /\ [][Next]_vars

\* SpecPanel: longer sessions on one panel, North's (the four panels are
\* instances of the one HandFrame class).
PanelPlayer == "N"

NextPanel ==
    \/ \E sc \in SuitSet : FocusEntry(MaxPanelSteps, CardsEntry(PanelPlayer, sc))
    \/ \E evt \in {"Return", "Tab"} : KeyReturnOrTab(MaxPanelSteps, evt)
    \/ \E text \in PanelCardTexts : TypeCards(MaxPanelSteps, text)
    \/ \E sc \in SuitSet, i \in 1..3 : ClickCardTile(MaxPanelSteps, PanelPlayer, sc, i)
    \/ SortAndSync(MaxPanelSteps, PanelPlayer)
    \/ Clear(MaxPanelSteps, PanelPlayer)

SpecPanel == Init /\ [][NextPanel]_vars

\* SpecSummary: sessions that fill cards and declared points on two panels
\* and recompute the summary line.
SummaryEntries ==
    {CardsEntry("N", "S"), PointsEntry("points_min", "N"), PointsEntry("points_max", "N"),
     CardsEntry("W", "C"), PointsEntry("points_max", "W")}

SummaryCardTexts == {<<"A", "K">>, <<"Q", "J", "2">>}
SummaryPointsTexts == {<<"5">>, <<"9">>, <<"x">>}

NextSummary ==
    \/ \E dest \in SummaryEntries : FocusEntry(MaxSummarySteps, dest)
    \/ \E evt \in {"Return", "Tab"} : KeyReturnOrTab(MaxSummarySteps, evt)
    \/ \E text \in SummaryCardTexts : TypeCards(MaxSummarySteps, text)
    \/ \E text \in SummaryPointsTexts : TypePoints(MaxSummarySteps, text)
    \/ SortAndSync(MaxSummarySteps, "W")
    \/ Clear(MaxSummarySteps, "N")
    \/ SortAllHands(MaxSummarySteps)
    \/ ClearAllHands(MaxSummarySteps)

SpecSummary == Init /\ [][NextSummary]_vars

\* SpecTable: longer sessions of clicks on the centre table, mixed with
\* edits of one cards entry and the window's commands.
NextTable ==
    \/ \E letter \in PlayerSet : ClickTableTile(MaxTableSteps, letter)
    \/ FocusEntry(MaxTableSteps, CardsEntry("E", "D"))
    \/ \E text \in CardTexts : TypeCards(MaxTableSteps, text)
    \/ \E evt \in {"Return", "Tab"} : KeyReturnOrTab(MaxTableSteps, evt)
    \/ SortAllHands(MaxTableSteps)
    \/ ClearAllHands(MaxTableSteps)
    \/ ValidateAll(MaxTableSteps)

SpecTable == Init /\ [][NextTable]_vars

\* SpecNorm: normalize_cards called once on an argument of NormTexts or None.
InitNorm ==
    /\ FormInit
    /\ norm_in \in NormTexts \cup {None}
    /\ norm_out = NotCalled

CallNormalize ==
    /\ norm_out = NotCalled
    /\ norm_out' = normalize_cards(norm_in)
    /\ UNCHANGED <<frames, table_colors, summary, focus, popup, last_op, steps, norm_in>>

NextNorm == CallNormalize

SpecNorm == InitNorm /\ [][NextNorm]_vars

(***************************************************************************)
(* Properties.  They are stated with their own spelling of the rank        *)
(* alphabet, point values and suit cycle, not with the operators above.    *)
(***************************************************************************)
FixedRanks == {"A", "K", "Q", "J", "T", "9", "8", "7", "6", "5", "4", "3", "2", "X"}

\* position in the ordering A K Q J T 9 8 7 6 5 4 3 2 X
Pos(r) ==
    CASE r = "A" -> 1 [] r = "K" -> 2 [] r = "Q" -> 3 [] r = "J" -> 4 [] r = "T" -> 5
      [] r = "9" -> 6 [] r = "8" -> 7 [] r = "7" -> 8 [] r = "6" -> 9 [] r = "5" -> 10
      [] r = "4" -> 11 [] r = "3" -> 12 [] r = "2" -> 13 [] r = "X" -> 14

\* Rank characters of the upper-cased text; every '0' stands for one 'T',
\* whether it closes a '10' or stands alone.
ExpectedCount(text, r) ==
    IF r = "T" THEN Count(Upper(text), "T") + Count(text, "0")
    ELSE Count(Upper(text), r)

\* C1: whatever the text, normalize_cards returns only characters of the
\* rank alphabet, in the fixed rank order, one per valid rank character of
\* the upper-cased input ('10' and '0' each give one 'T', everything else
\* is dropped); None gives the empty string.
C1_NormalizeCanonical ==
    norm_out # NotCalled =>
        /\ \A i \in DOMAIN norm_out : norm_out[i] \in FixedRanks
        /\ \A i, j \in DOMAIN norm_out : i < j => Pos(norm_out[i]) <= Pos(norm_out[j])
        /\ IF norm_in = None
           THEN norm_out = <<>>
           ELSE \A r \in FixedRanks : Count(norm_out, r) = ExpectedCount(norm_in, r)

\* '10a' was normalized: the '10' became 'T', 'a' became 'A' and moved first
C1_Witness == norm_in = <<"1", "0", "a">> /\ norm_out = <<"A", "T">>

Flip(colour) == IF colour = GREEN THEN RED ELSE GREEN

PairOf(letter) == IF letter \in {"N", "S"} THEN {"N", "S"} ELSE {"W", "E"}

TableOk ==
    /\ \A L \in {"N", "E", "S", "W"} : table_colors[L] \in {GREEN, RED}
    /\ table_colors["N"] = table_colors["S"]
    /\ table_colors["W"] = table_colors["E"]

TableClickFlipsPair ==
    last_op'.op = "_toggle_table_letter" =>
        \A L \in {"N", "E", "S", "W"} :
            table_colors'[L] = IF L \in PairOf(last_op'.pl)
                               THEN Flip(table_colors[L])
                               ELSE table_colors[L]

\* C8: from four green tiles, every tile is always green or red, N and S
\* share a colour, W and E share a colour, and a click on a tile flips the
\* colour of its own pair and leaves the other pair as it was.
C8_TablePairs == []TableOk /\ [][TableClickFlipsPair]_vars

\* the N/S pair was flipped to red by the third click; W/E is green again
C8_Witness ==
    /\ last_op.op = "_toggle_table_letter"
    /\ steps = 3
    /\ table_colors["N"] = RED /\ table_colors["S"] = RED
    /\ table_colors["W"] = GREEN /\ table_colors["E"] = GREEN

\* the panels the last handler worked on
PanelsOf(op) ==
    IF op.op \in {"sort_all_hands", "clear_all_hands"} THEN {"N", "E", "S", "W"}
    ELSE IF op.op \in {"on_cards_change", "sort_all", "clear_all"} THEN {op.pl}
    ELSE {}

\* A=4, K=3, Q=2, J=1, in either letter case
Points(cards) ==
    4 * Count(Upper(cards), "A") + 3 * Count(Upper(cards), "K")
    + 2 * Count(Upper(cards), "Q") + Count(Upper(cards), "J")

HandPoints(hf) ==
    Points(hf.suit_card_vars["S"]) + Points(hf.suit_card_vars["H"])
    + Points(hf.suit_card_vars["D"]) + Points(hf.suit_card_vars["C"])

HandTotal(hf) ==
    Len(hf.suit_card_vars["S"]) + Len(hf.suit_card_vars["H"])
    + Len(hf.suit_card_vars["D"]) + Len(hf.suit_card_vars["C"])

\* C2: after the card-change callback ran for a suit, the suit's card field
\* holds normalize_cards(typed text), lower-case text included, and the
\* count field holds the length of that canonical form.
C2_FieldHoldsCanonical ==
    last_op.op = "on_cards_change" =>
        LET hf == frames[last_op.pl]
            canon == normalize_cards(last_op.text)
        IN  /\ hf.suit_card_vars[last_op.sc] = canon
            /\ hf.suit_count_vars[last_op.sc] = Str(Len(canon))

\* C3: after a card-change callback, Sort & Sync or Clear on a panel, the
\* panel's HCP is the sum over its suits of A=4, K=3, Q=2, J=1 for the cards
\* entered, whatever their letter case.
C3_HcpOfCardsEntered ==
    \A pl \in PanelsOf(last_op) : frames[pl].hcp_var = Str(HandPoints(frames[pl]))

\* C4: after a card-change callback, Sort & Sync or Clear on a panel, the
\* panel's Cards counter is the sum of the lengths of its four card strings.
C4_CardsCounter ==
    \A pl \in PanelsOf(last_op) : frames[pl].cards_total_var = Str(HandTotal(frames[pl]))

\* the callback ran on the second of two filled suits: 3 + 2 cards
C4_Witness ==
    /\ last_op.op = "on_cards_change"
    /\ frames["N"].suit_card_vars["S"] = <<"K", "X", "X">>
    /\ frames["N"].suit_card_vars["H"] = <<"A", "K">>
    /\ frames["N"].cards_total_var = <<"5">>

\* C5: Validate All shows the warning popup whenever some hand has a total
\* number of cards other than 13, and the warning names every such player.
C5_WarnsWheneverNot13 ==
    last_op.op = "validate_all" =>
        LET off == {pl \in {"N", "E", "S", "W"} : HandTotal(frames[pl]) # 13}
        IN  off # {} =>
                /\ popup.kind = "showwarning"
                /\ \A pl \in off : \E i \in DOMAIN popup.msgs :
                       popup.msgs[i].what = "total" /\ popup.msgs[i].pl = pl

\* the count field reads as a number other than the length of the card string
CountDiffers(hf, sc) ==
    /\ IntParses(hf.suit_count_vars[sc])
    /\ int(hf.suit_count_vars[sc]) # Len(hf.suit_card_vars[sc])

\* C6: Validate All never fails, whatever the count fields hold; it reports
\* every player and suit whose count differs from the length of the card
\* string, and says 'All good!' only when no suit has such a mismatch.
C6_ReportsEveryMismatch ==
    last_op.op = "validate_all" =>
        /\ popup.kind \in {"showwarning", "showinfo"}
        /\ \A pl \in {"N", "E", "S", "W"}, sc \in {"S", "H", "D", "C"} :
               CountDiffers(frames[pl], sc) =>
                   /\ popup.kind = "showwarning"
                   /\ \E i \in DOMAIN popup.msgs :
                          /\ popup.msgs[i].what = "count"
                          /\ popup.msgs[i].pl = pl
                          /\ popup.msgs[i].sc = sc

\* C7: in every reachable state Dump State completes and prints one entry
\* per player with its points range, HCP, cards total and, per suit, the
\* count, the cards and the played counts.
C7_DumpCompletes ==
    last_op.op = "dump_state" =>
        /\ popup.kind = "showinfo"
        /\ DOMAIN popup.printed = {"N", "E", "S", "W"}
        /\ \A pl \in {"N", "E", "S", "W"} :
               /\ popup.printed[pl].points_range = <<frames[pl].points_min, frames[pl].points_max>>
               /\ popup.printed[pl].hcp = frames[pl].hcp_var
               /\ popup.printed[pl].cards_total = frames[pl].cards_total_var
               /\ \A sc \in {"S", "H", "D", "C"} :
                      /\ popup.printed[pl].suits[sc].count = frames[pl].suit_count_vars[sc]
                      /\ popup.printed[pl].suits[sc].cards = frames[pl].suit_card_vars[sc]
                      /\ popup.printed[pl].suits[sc].played = frames[pl].played_counts[sc]

\* ranks other than X of which new holds more cards than old
Gained(old, new) == {r \in FixedRanks \ {"X"} : Count(new, r) > Count(old, r)}

\* number of non-X cards new holds beyond those of old, rank by rank
RECURSIVE Gain(_, _, _)
Gain(ranks, old, new) ==
    IF ranks = {} THEN 0
    ELSE LET r == CHOOSE x \in ranks : TRUE
         IN  (Count(new, r) - Count(old, r)) + Gain(ranks \ {r}, old, new)

CardsChangeMarks ==
    last_op'.op = "on_cards_change" =>
        LET pl == last_op'.pl
            sc == last_op'.sc
            old == frames[pl].last_cards[sc]
            new == frames'[pl].last_cards[sc]
            one_x_replaced ==
                /\ old # <<>>
                /\ Count(old, "X") - Count(new, "X") = 1
                /\ Gain(Gained(old, new), old, new) = 1
        IN  /\ one_x_replaced =>
                \E r \in Gained(old, new) :
                    frames'[pl].played_counts[sc] =
                        frames[pl].played_counts[sc] (+) SetToBag({r})
            /\ ~one_x_replaced =>
                frames'[pl].played_counts[sc] = frames[pl].played_counts[sc]
            /\ \A q \in {"N", "E", "S", "W"}, t \in {"S", "H", "D", "C"} :
                   <<q, t>> # <<pl, sc>> =>
                       frames'[q].played_counts[t] = frames[q].played_counts[t]

\* C9: the card-change callback adds exactly 1 to the played count of the
\* one added rank of its suit, and changes no other played count, when the
\* recorded cards are non-empty and the new canonical cards have exactly one
\* X fewer and exactly one more non-X card; otherwise it changes no played
\* count at all.
C9_AutoMark == [][CardsChangeMarks]_vars

\* 'AX' was recorded, 'AK' came in: K is marked played once
C9_Witness ==
    /\ last_op.op = "on_cards_change"
    /\ last_op.old = <<"A", "X">>
    /\ frames[last_op.pl].last_cards[last_op.sc] = <<"A", "K">>
    /\ frames[last_op.pl].played_counts[last_op.sc] = SetToBag({"K"})

NextInCycle(sc) ==
    CASE sc = "S" -> "H" [] sc = "H" -> "D" [] sc = "D" -> "C" [] sc = "C" -> "S"

SummaryRecomputed ==
    last_op.op \in {"on_cards_change", "sort_all", "clear_all",
                    "sort_all_hands", "clear_all_hands"}

\* a declared Pts value: the number written, 0 if blank or not a number
Declared(text) ==
    LET v == Strip(text)
    IN  IF v # EmptyStr /\ \A i \in DOMAIN v : v[i] \in AsciiDigitSet
        THEN DecimalValue(v) ELSE 0

\* the HCP counter the panel shows
DisplayedHcp(hf) == DecimalValue(hf.hcp_var)

Larger(a, b) == IF a >= b THEN a ELSE b

\* C11: when the summary line is recomputed, Total cards is the sum of the
\* per-suit totals (the card-field lengths over the four players and four
\* suits), Min pts is the sum over the players of the larger of displayed
\* HCP and declared minimum, Max pts likewise with the declared maximum; a
\* blank or non-numeric declared value counts as 0.
C11_SummaryTotals ==
    SummaryRecomputed =>
        /\ summary.total_cards =
               summary.suit_totals["S"] + summary.suit_totals["H"]
               + summary.suit_totals["D"] + summary.suit_totals["C"]
        /\ \A sc \in SuitSet :
               summary.suit_totals[sc] =
                   Len(frames["N"].suit_card_vars[sc]) + Len(frames["E"].suit_card_vars[sc])
                   + Len(frames["S"].suit_card_vars[sc]) + Len(frames["W"].suit_card_vars[sc])
        /\ summary.min_points_sum =
               Larger(DisplayedHcp(frames["N"]), Declared(frames["N"].points_min))
               + Larger(DisplayedHcp(frames["E"]), Declared(frames["E"].points_min))
               + Larger(DisplayedHcp(frames["S"]), Declared(frames["S"].points_min))
               + Larger(DisplayedHcp(frames["W"]), Declared(frames["W"].points_min))
        /\ summary.max_points_sum =
               Larger(DisplayedHcp(frames["N"]), Declared(frames["N"].points_max))
               + Larger(DisplayedHcp(frames["E"]), Declared(frames["E"].points_max))
               + Larger(DisplayedHcp(frames["S"]), Declared(frames["S"].points_max))
               + Larger(DisplayedHcp(frames["W"]), Declared(frames["W"].points_max))

\* North shows 7 HCP for AK and declares only a maximum, 9: the recomputed
\* line has Min pts 7 (HCP over a blank minimum) and Max pts 9 (declared
\* maximum over HCP)
C11_Witness ==
    /\ SummaryRecomputed
    /\ frames["N"].suit_card_vars["S"] = <<"A", "K">>
    /\ frames["N"].hcp_var = <<"7">>
    /\ frames["N"].points_min = EmptyStr
    /\ frames["N"].points_max = <<"9">>
    /\ summary.total_cards = 2
    /\ summary.min_points_sum = 7
    /\ summary.max_points_sum = 9

\* the tile texts and recorded ranks of one suit of a panel
RanksSeen(hf, sc) ==
    RankSet \cup BagToSet(hf.played_counts[sc])
    \cup {hf.card_strips[sc][i].text : i \in DOMAIN hf.card_strips[sc]}

\* the tiles of rank r shown as played in the suit strip
GreenTiles(hf, sc, r) ==
    {i \in DOMAIN hf.card_strips[sc] :
        hf.card_strips[sc][i].text = r /\ hf.card_strips[sc][i].played}

\* C12: after a card-change callback, a tile click, Sort & Sync or Clear on
\* a panel, in every suit the number of tiles of each rank shown as played
\* equals the recorded played count of the rank, the recorded count does
\* not exceed the number of cards of that rank in the suit (a count is a
\* multiplicity, so never negative), and no X tile is shown as played.
C12_StripMatchesPlayed ==
    last_op.op \in {"on_cards_change", "on_toggle", "sort_all", "clear_all"} =>
        LET hf == frames[last_op.pl]
        IN  \A sc \in SuitSet :
                /\ \A r \in RanksSeen(hf, sc) :
                       /\ Cardinality(GreenTiles(hf, sc, r)) = CopiesIn(r, hf.played_counts[sc])
                       /\ CopiesIn(r, hf.played_counts[sc]) <= Count(hf.suit_card_vars[sc], r)
                /\ GreenTiles(hf, sc, "X") = {}

====
